---- MODULE Spec2Model ----
(***************************************************************************)
(* A model of morningscraper/__init__.py: the search-result extractor      *)
(* (search), the url normaliser (fix_url), the single-url resolver         *)
(* (get_url) and the record aggregator (get_data).                         *)
(*                                                                         *)
(* Strings are modelled as sequences of tokens (atomic substrings), so     *)
(* that startswith / endswith / concatenation are computed, not assumed.   *)
(* A parsed page is a sequence of tables; a table has an id and a sequence *)
(* of rows (tr); a row is the sequence of its td cells; a cell has a text, *)
(* a class and possibly an embedded link.                                  *)
(***************************************************************************)
EXTENDS Integers, Sequences, FiniteSets, TLC

VARIABLES
    op,        \* the public function being called: search, get_data, get_url
    pc,        \* where the call stands
    arg,       \* get_url: url
    page,      \* search: parsed_html, the parsed search page
    results,   \* search: results, and get_data: results
    idx,       \* get_data: the position of `for item in results`
    output,    \* get_data: output (get_url: result)
    outcomes,  \* what each get_url of the call gave: a record, nothing, an error
    trace,     \* the fetches and get_url entries of the call, in order
    err        \* the exception that ended the call

vars == <<op, pc, arg, page, results, idx, output, outcomes, trace, err>>

\* Bound of the model: the number of data rows (rows after the header) a
\* search page holds, all its tables together.
MaxRows == 3

----------------------------------------------------------------------------
(* Strings *)

StartsWith(s, p) == Len(s) >= Len(p) /\ SubSeq(s, 1, Len(p)) = p

EndsWith(s, p) == Len(s) >= Len(p) /\ SubSeq(s, Len(s) - Len(p) + 1, Len(s)) = p

\* s[1:]
Rest(s) == IF s = <<>> THEN <<>> ELSE Tail(s)

SITE == <<"morningstar", ".", "co", ".", "uk">>

SITE_BASE == <<"http", ":", "/", "/", "www", ".">> \o SITE

\* SEARCH_BASE % quote(ref): the search endpoint with the encoded term
SEARCH_BASE(ref) ==
    SITE_BASE \o <<"/", "uk", "/", "funds", "/", "SecuritySearchResults.aspx",
                   "?", "search=">> \o <<ref>>

\* The search term of main: an alphanumeric term, which quote leaves as it is.
Ref == "EWJ"

Delims == {"/", ":", ".", "@", "?", "#"}

\* urlsplit(url).scheme
Scheme(url) ==
    IF Len(url) >= 2 /\ url[2] = ":" /\ url[1] \notin Delims
    THEN <<url[1]>> ELSE <<>>

\* The longest prefix of s holding no token of stop
RECURSIVE TakeUntil(_, _)
TakeUntil(s, stop) ==
    IF s = <<>> \/ Head(s) \in stop THEN <<>>
    ELSE <<Head(s)>> \o TakeUntil(Tail(s), stop)

\* urlsplit(url).netloc
Netloc(url) ==
    LET r == IF Scheme(url) # <<>> THEN SubSeq(url, 3, Len(url)) ELSE url
    IN  IF Len(r) >= 2 /\ r[1] = "/" /\ r[2] = "/"
        THEN TakeUntil(SubSeq(r, 3, Len(r)), {"/", "?", "#"})
        ELSE <<>>

\* A domain check that looks for the site domain anywhere in the netloc
DomainOkSubstring(url) ==
    \E i \in 1..Len(Netloc(url)) :
        StartsWith(SubSeq(Netloc(url), i, Len(Netloc(url))), SITE)

\* urlsplit(url).netloc.endswith(SITE)
DomainOk(url) == EndsWith(Netloc(url), SITE)

\* fix_url: the site base is put before a url that starts with '/'
fix_url(url) == IF StartsWith(url, <<"/">>) THEN SITE_BASE \o url ELSE url

----------------------------------------------------------------------------
(* Urls *)

U_rel    == <<"/", "stock", "/", "1">>
U_bare   == <<"uk", "/", "funds", "/", "x">>
U_site   == <<"http", ":", "/", "/", "www", ".", "morningstar", ".", "co", ".", "uk", "/", "f">>
U_evil   == <<"http", ":", "/", "/", "evil", ".", "com", "/", "x">>
U_suffix == <<"http", ":", "/", "/", "evil", "morningstar", ".", "co", ".", "uk", "/", "x">>
U_prefix == <<"http", ":", "/", "/", "morningstar", ".", "co", ".", "uk", ".", "evil", ".", "com", "/", "x">>
U_user   == <<"http", ":", "/", "/", "morningstar", ".", "co", ".", "uk", "@", "evil", ".", "com", "/", "x">>
U_port   == <<"http", ":", "/", "/", "www", ".", "morningstar", ".", "co", ".", "uk", ":", "80", "/", "f">>
U_path   == <<"http", ":", "/", "/", "evil", ".", "com", "/", "morningstar", ".", "co", ".", "uk">>

\* The urls a caller hands to get_url
Urls == {U_rel, U_bare, U_site, U_evil, U_suffix, U_prefix, U_user, U_port, U_path}

----------------------------------------------------------------------------
(* The parsed search page: tables, rows, cells *)

NoLink == [has |-> FALSE, hasHref |-> FALSE, href |-> <<>>]

\* <a> without an href attribute: a.get('href') is None
BareLink == [has |-> TRUE, hasHref |-> FALSE, href |-> <<>>]

Link(h) == [has |-> TRUE, hasHref |-> TRUE, href |-> h]

Td(text, class, a) == [text |-> text, class |-> class, a |-> a]

\* The header row of a results table holds th cells only
HeaderRow == <<>>

\* 'ctl00_MainContent_{}Table'.format(instrument_type)
TableId(instrument_type) == <<"ctl00_MainContent_", instrument_type, "Table">>

Families == {"stock", "fund", "etf"}

StockRowsGood ==
    { <<Td("Acme Corp", "", Link(U_rel)), Td("ACM", "searchTicker", NoLink),
        Td("USD", "searchCurrency", NoLink)>>,
      <<Td("Bolt plc", "", Link(U_site)), Td("BLT", "searchTicker", NoLink),
        Td("GBP", "searchCurrency", NoLink)>> }

StockRowsBad ==
    { <<>>,
      <<Td("Acme Corp", "", NoLink), Td("ACM", "searchTicker", NoLink),
        Td("USD", "searchCurrency", NoLink)>>,
      <<Td("Acme Corp", "", Link(U_rel)), Td("USD", "searchCurrency", NoLink)>>,
      <<Td("Acme Corp", "", Link(U_rel)), Td("ACM", "searchTicker", NoLink)>> }

FundRowsGood ==
    { <<Td("Alpha Fund", "", Link(U_rel)), Td("GB0001", "", NoLink)>>,
      <<Td("Beta Fund", "", Link(U_evil)), Td("GB0002", "", NoLink)>>,
      <<Td("Gamma Fund", "", Link(U_bare)), Td("GB0003", "", NoLink)>> }

FundRowsBad ==
    { <<>>,
      <<Td("Alpha Fund", "", Link(U_rel))>>,
      <<Td("Alpha Fund", "", NoLink), Td("GB0001", "", NoLink)>>,
      <<Td("Alpha Fund", "", BareLink), Td("GB0001", "", NoLink)>> }

\* The rows the site serves in the table of a family
RowsFor(fam) ==
    IF fam = "stock" THEN StockRowsGood \cup StockRowsBad
    ELSE FundRowsGood \cup FundRowsBad

\* The tables of a family with n data rows; with none, the table holds its
\* header row only or no row at all
TablesWith(fam, n) ==
    IF n = 0
    THEN { [id |-> TableId(fam), rows |-> <<>>],
           [id |-> TableId(fam), rows |-> <<HeaderRow>>] }
    ELSE { [id |-> TableId(fam), rows |-> <<HeaderRow>> \o rs] :
             rs \in [1..n -> RowsFor(fam)] }

\* The tables of a family with at most budget data rows
TablesUpTo(fam, budget) == UNION { TablesWith(fam, n) : n \in 0..budget }

\* The number of data rows of the tables of p
RECURSIVE DataRowCount(_)
DataRowCount(p) ==
    IF p = <<>> THEN 0
    ELSE Len(Rest(Head(p).rows)) + DataRowCount(Tail(p))

\* The orders in which a page holds the tables of some of the families
FamilyOrders ==
    { o \in UNION { [1..k -> Families] : k \in 0..Cardinality(Families) } :
        \A i, j \in DOMAIN o : i # j => o[i] # o[j] }

\* What a page holds at one place: the table of a family, as a sequence
Slots ==
    [fam \in Families, budget \in 0..MaxRows |->
        { <<t>> : t \in TablesUpTo(fam, budget) }]

\* What a page of the given order of families holds at place i, with at
\* most budget data rows: nothing past the last family
Slot(order, i, budget) ==
    IF i > Len(order) THEN { <<>> } ELSE Slots[order[i], budget]

----------------------------------------------------------------------------
(* search *)

Ok(rs) == [ok |-> TRUE, results |-> rs, error |-> "none"]

Raise(e) == [ok |-> FALSE, results |-> <<>>, error |-> e]

\* parsed_html.find_all('table', id=...)
FindAll(p, id) == SelectSeq(p, LAMBDA t : t.id = id)

\* row.find_all('td', class_=class)
FindClass(row, class) == SelectSeq(row, LAMBDA c : c.class = class)

\* The dict built from a row of the stock table (lines 81-89); the entries
\* are evaluated in the order written
StockDict(stock) ==
    IF stock = <<>> THEN Raise("AttributeError")               \* stock.td is None
    ELSE IF ~stock[1].a.has THEN Raise("AttributeError")       \* stock.td.a is None
    ELSE IF ~stock[1].a.hasHref THEN Raise("AttributeError")   \* fix_url(None)
    ELSE IF FindClass(stock, "searchTicker") = <<>> THEN Raise("IndexError")
    ELSE IF FindClass(stock, "searchCurrency") = <<>> THEN Raise("IndexError")
    ELSE Ok(<< [name |-> stock[1].text,
                url |-> fix_url(stock[1].a.href),
                type |-> "Stock",
                ticker |-> FindClass(stock, "searchTicker")[1].text,
                currency |-> FindClass(stock, "searchCurrency")[1].text] >>)

\* The dict built from a row of a fund or etf table (lines 98-104)
FundDict(fund, instrument_type) ==
    LET data == fund
    IN  IF Len(data) < 1 THEN Raise("IndexError")              \* data[0]
        ELSE IF ~data[1].a.has THEN Raise("AttributeError")    \* data[0].a is None
        ELSE IF ~data[1].a.hasHref THEN Raise("AttributeError") \* fix_url(None)
        ELSE IF Len(data) < 2 THEN Raise("IndexError")         \* data[1]
        ELSE Ok(<< [name |-> data[1].text,
                    url |-> fix_url(data[1].a.href),
                    type |-> instrument_type,
                    ISIN |-> data[2].text] >>)

RowDict(row, instrument_type) ==
    IF instrument_type = "Stock" THEN StockDict(row)
    ELSE FundDict(row, instrument_type)

\* A loop that drops the rows it cannot read instead of failing
RECURSIVE AppendRowsSkipping(_, _, _)
AppendRowsSkipping(acc, rows, instrument_type) ==
    IF rows = <<>> THEN Ok(acc)
    ELSE LET d == RowDict(Head(rows), instrument_type)
         IN  AppendRowsSkipping(acc \o d.results, Tail(rows), instrument_type)

\* for row in rows: results.append({...})
RECURSIVE AppendRows(_, _, _)
AppendRows(acc, rows, instrument_type) ==
    IF rows = <<>> THEN Ok(acc)
    ELSE LET d == RowDict(Head(rows), instrument_type)
         IN  IF ~d.ok THEN d
             ELSE AppendRows(acc \o d.results, Tail(rows), instrument_type)

\* The stock part of search (lines 74-89)
SearchStocks(parsed_html) ==
    LET stocks == FindAll(parsed_html, TableId("stock"))
    IN  IF stocks # <<>>
        THEN AppendRows(<<>>, Rest(stocks[1].rows), "Stock")
        ELSE Ok(<<>>)

\* The family loop without its break: every family's table is read
RECURSIVE SearchFamiliesNoBreak(_, _, _)
SearchFamiliesNoBreak(parsed_html, acc, types) ==
    IF types = <<>> THEN Ok(acc)
    ELSE LET funds == FindAll(parsed_html, TableId(Head(types)))
             r == IF funds # <<>>
                  THEN AppendRows(acc, Rest(funds[1].rows), Head(types))
                  ELSE Ok(acc)
         IN  IF ~r.ok THEN r
             ELSE SearchFamiliesNoBreak(parsed_html, r.results, Tail(types))

\* The family loop leaving at the first family whose table holds a data row
RECURSIVE SearchFamiliesBreakOnRows(_, _, _)
SearchFamiliesBreakOnRows(parsed_html, acc, types) ==
    IF types = <<>> THEN Ok(acc)
    ELSE LET funds == FindAll(parsed_html, TableId(Head(types)))
         IN  IF funds # <<>> /\ Rest(funds[1].rows) # <<>>
             THEN AppendRows(acc, Rest(funds[1].rows), Head(types))
             ELSE SearchFamiliesBreakOnRows(parsed_html, acc, Tail(types))

\* for instrument_type in [...]: if funds: ...; break   (lines 91-105)
RECURSIVE SearchFamilies(_, _, _)
SearchFamilies(parsed_html, acc, types) ==
    IF types = <<>> THEN Ok(acc)
    ELSE LET funds == FindAll(parsed_html, TableId(Head(types)))
         IN  IF funds # <<>>
             THEN AppendRows(acc, Rest(funds[1].rows), Head(types))
             ELSE SearchFamilies(parsed_html, acc, Tail(types))

\* search with the fund and etf rows read before the stock rows
searchFundsFirst(parsed_html) ==
    LET f == SearchFamilies(parsed_html, <<>>, <<"fund", "etf">>)
    IN  IF ~f.ok THEN f
        ELSE LET s == SearchStocks(parsed_html)
             IN  IF ~s.ok THEN s ELSE Ok(f.results \o s.results)

\* search: the candidates of a parsed page, or the error it raises
search(parsed_html) ==
    LET s == SearchStocks(parsed_html)
    IN  IF ~s.ok THEN s
        ELSE SearchFamilies(parsed_html, s.results, <<"fund", "etf">>)

----------------------------------------------------------------------------
(* get_url *)

NoErr == [type |-> "none", at |-> "none"]

\* The valuation record the detail page at url yields
Record(url) == [url |-> url]

\* What a list holds once None was appended to it
NoneRecord == [url |-> <<"None">>]

Event(ev, i, url) == [ev |-> ev, i |-> i, url |-> url]

\* The ways get_url(url) can end: the domain check raises, or
\* SecurityPage.from_url fails, or page.get_data() gives a record or nothing
GetUrlOutcomes(url) ==
    IF ~DomainOk(url) THEN {"DomainError"}
    ELSE {"record", "absent", "FetchError"}

\* What get_url(url) does for candidate i: it is entered, and fetches the
\* detail page only past the domain check
GetUrlEvents(url, i) ==
    <<Event("resolve", i, url)>> \o
    (IF DomainOk(url) THEN <<Event("fetch_detail", i, url)>> ELSE <<>>)

----------------------------------------------------------------------------
(* The state machine: a caller calls search, get_data or get_url *)

Init ==
    /\ op = "idle"
    /\ pc = "idle"
    /\ arg = <<>>
    /\ page = <<>>
    /\ results = <<>>
    /\ idx = 1
    /\ output = <<>>
    /\ outcomes = <<>>
    /\ trace = <<>>
    /\ err = NoErr

CallSearch ==
    /\ pc = "idle"
    /\ op' = "search"
    /\ pc' = "search"
    /\ UNCHANGED <<arg, page, results, idx, output, outcomes, trace, err>>

CallGetData ==
    /\ pc = "idle"
    /\ op' = "get_data"
    /\ pc' = "search"
    /\ UNCHANGED <<arg, page, results, idx, output, outcomes, trace, err>>

CallGetUrl ==
    /\ pc = "idle"
    /\ \E url \in Urls : arg' = url
    /\ op' = "get_url"
    /\ pc' = "resolve"
    /\ UNCHANGED <<page, results, idx, output, outcomes, trace, err>>

\* search, when make_soup fails to fetch or parse the search page
SearchFetchFails ==
    /\ pc = "search"
    /\ trace' = Append(trace, Event("fetch_search", 0, SEARCH_BASE(Ref)))
    /\ pc' = "raised"
    /\ err' = [type |-> "FetchError", at |-> "search"]
    /\ UNCHANGED <<op, arg, page, results, idx, output, outcomes>>

\* search on the parsed page that make_soup gives: the whole of lines 73-114.
\* Called by get_data, its result is the list get_data loops over.
SearchOn(parsed_html) ==
    /\ trace' = Append(trace, Event("fetch_search", 0, SEARCH_BASE(Ref)))
    /\ page' = parsed_html
    /\ LET r == search(parsed_html)
       IN  IF r.ok
           THEN /\ results' = r.results
                /\ pc' = IF op = "search" THEN "returned" ELSE "loop"
                /\ err' = err
           ELSE /\ results' = results
                /\ pc' = "raised"
                /\ err' = [type |-> r.error, at |-> "search"]
    /\ UNCHANGED <<op, arg, idx, output, outcomes>>

\* search, on any page the site serves: the tables of some of the families,
\* in any order, with at most MaxRows data rows together
Search ==
    /\ pc = "search"
    /\ \E order \in FamilyOrders :
       \E t1 \in Slot(order, 1, MaxRows) :
       \E t2 \in Slot(order, 2, MaxRows - DataRowCount(t1)) :
       \E t3 \in Slot(order, 3, MaxRows - DataRowCount(t1 \o t2)) :
          SearchOn(t1 \o t2 \o t3)

\* One turn of get_data's loop, with None appended like any record
GetDataStepAppendNone ==
    /\ op = "get_data" /\ pc = "loop" /\ idx <= Len(results)
    /\ LET url == results[idx].url
       IN  /\ trace' = trace \o GetUrlEvents(url, idx)
           /\ \E data \in GetUrlOutcomes(url) :
                /\ outcomes' = Append(outcomes, data)
                /\ IF data = "record"
                   THEN /\ output' = Append(output, Record(url))
                        /\ idx' = idx + 1
                        /\ UNCHANGED <<pc, err>>
                   ELSE IF data = "absent"
                   THEN /\ output' = Append(output, NoneRecord)
                        /\ idx' = idx + 1
                        /\ UNCHANGED <<pc, err>>
                   ELSE /\ pc' = "raised"
                        /\ err' = [type |-> data, at |-> "get_url"]
                        /\ UNCHANGED <<output, idx>>
    /\ UNCHANGED <<op, arg, page, results>>

\* One turn of get_data's loop, with the candidate asked again when its page
\* yields nothing
GetDataStepRetry ==
    /\ op = "get_data" /\ pc = "loop" /\ idx <= Len(results)
    /\ LET url == results[idx].url
       IN  /\ trace' = trace \o GetUrlEvents(url, idx)
           /\ \E data \in GetUrlOutcomes(url) :
                /\ outcomes' = Append(outcomes, data)
                /\ IF data = "record"
                   THEN /\ output' = Append(output, Record(url))
                        /\ idx' = idx + 1
                        /\ UNCHANGED <<pc, err>>
                   ELSE IF data = "absent"
                   THEN UNCHANGED <<output, idx, pc, err>>
                   ELSE /\ pc' = "raised"
                        /\ err' = [type |-> data, at |-> "get_url"]
                        /\ UNCHANGED <<output, idx>>
    /\ UNCHANGED <<op, arg, page, results>>

\* One turn of get_data's loop, with the errors of get_url caught and the
\* candidate skipped
GetDataStepCatch ==
    /\ op = "get_data" /\ pc = "loop" /\ idx <= Len(results)
    /\ LET url == results[idx].url
       IN  /\ trace' = trace \o GetUrlEvents(url, idx)
           /\ \E data \in GetUrlOutcomes(url) :
                /\ outcomes' = Append(outcomes, data)
                /\ output' = IF data = "record"
                             THEN Append(output, Record(url)) ELSE output
                /\ idx' = idx + 1
                /\ UNCHANGED <<pc, err>>
    /\ UNCHANGED <<op, arg, page, results>>

\* One turn of get_data's loop (lines 145-148): get_url on the candidate's
\* url; its record is appended, nothing is skipped, an error propagates
GetDataStep ==
    /\ op = "get_data" /\ pc = "loop" /\ idx <= Len(results)
    /\ LET url == results[idx].url
       IN  /\ trace' = trace \o GetUrlEvents(url, idx)
           /\ \E data \in GetUrlOutcomes(url) :
                /\ outcomes' = Append(outcomes, data)
                /\ IF data = "record"
                   THEN /\ output' = Append(output, Record(url))
                        /\ idx' = idx + 1
                        /\ UNCHANGED <<pc, err>>
                   ELSE IF data = "absent"
                   THEN /\ idx' = idx + 1
                        /\ UNCHANGED <<output, pc, err>>
                   ELSE /\ pc' = "raised"
                        /\ err' = [type |-> data, at |-> "get_url"]
                        /\ UNCHANGED <<output, idx>>
    /\ UNCHANGED <<op, arg, page, results>>

\* return output (line 149)
GetDataReturn ==
    /\ op = "get_data" /\ pc = "loop" /\ idx > Len(results)
    /\ pc' = "returned"
    /\ UNCHANGED <<op, arg, page, results, idx, output, outcomes, trace, err>>

\* get_url called on its own (lines 175-183)
GetUrl ==
    /\ op = "get_url" /\ pc = "resolve"
    /\ trace' = trace \o GetUrlEvents(arg, 0)
    /\ \E data \in GetUrlOutcomes(arg) :
         /\ outcomes' = Append(outcomes, data)
         /\ IF data = "record"
            THEN /\ output' = <<Record(arg)>>
                 /\ pc' = "returned"
                 /\ err' = err
            ELSE IF data = "absent"
            THEN /\ output' = output
                 /\ pc' = "returned"
                 /\ err' = err
            ELSE /\ output' = output
                 /\ pc' = "raised"
                 /\ err' = [type |-> data, at |-> "get_url"]
    /\ UNCHANGED <<op, arg, page, results, idx>>

\* The call is over; nothing of it is kept (no cache, no shared state)
NextCall ==
    /\ pc \in {"returned", "raised"}
    /\ op' = "idle"
    /\ pc' = "idle"
    /\ arg' = <<>>
    /\ page' = <<>>
    /\ results' = <<>>
    /\ idx' = 1
    /\ output' = <<>>
    /\ outcomes' = <<>>
    /\ trace' = <<>>
    /\ err' = NoErr

Next ==
    \/ CallSearch
    \/ CallGetData
    \/ CallGetUrl
    \/ SearchFetchFails
    \/ Search
    \/ GetDataStep
    \/ GetDataReturn
    \/ GetUrl
    \/ NextCall

Spec == Init /\ [][Next]_vars

----------------------------------------------------------------------------
(* What the claims speak of *)

\* search has returned its list (to the caller, or into get_data)
SearchReturned ==
    \/ op = "search" /\ pc = "returned"
    \/ op = "get_data" /\ (pc \in {"loop", "returned"} \/ err.at = "get_url")

\* search has fetched its page and ended, with a list or with an error
SearchEnded ==
    \/ SearchReturned
    \/ op \in {"search", "get_data"} /\ pc = "raised" /\ err.at = "search"
       /\ err.type # "FetchError"

\* get_data has ended, with a list or with an error
GetDataEnded == op = "get_data" /\ pc \in {"returned", "raised"}

Present(p, fam) == \E i \in 1..Len(p) : p[i].id = TableId(fam)

\* The table of a family that a page shows first
FirstTable(p, fam) ==
    p[CHOOSE i \in 1..Len(p) :
        /\ p[i].id = TableId(fam)
        /\ \A j \in 1..(i - 1) : p[j].id # TableId(fam)]

\* The rows after the header of a family's table
DataRows(p, fam) ==
    IF Present(p, fam) /\ Len(FirstTable(p, fam).rows) > 1
    THEN SubSeq(FirstTable(p, fam).rows, 2, Len(FirstTable(p, fam).rows))
    ELSE <<>>

Stocks(rs) == SelectSeq(rs, LAMBDA c : c.type = "Stock")

NonStocks(rs) == SelectSeq(rs, LAMBDA c : c.type # "Stock")

\* The candidates rs are those of rows, one per row, in the order of the rows
OnePerRow(rs, rows) ==
    /\ Len(rs) = Len(rows)
    /\ \A i \in 1..Len(rs) :
         /\ Len(rows[i]) >= 1
         /\ rs[i].name = rows[i][1].text

\* scheme and host present
IsAbsolute(url) == Scheme(url) # <<>> /\ Netloc(url) # <<>>

\* The part of s after its last token t (s itself when t is not in s)
RECURSIVE AfterLast(_, _)
AfterLast(s, t) ==
    IF \E i \in 1..Len(s) : s[i] = t
    THEN AfterLast(Tail(s), t)
    ELSE s

\* The host of a netloc [userinfo@]host[:port]
Host(netloc) == TakeUntil(AfterLast(netloc, "@"), {":"})

\* The host of url equals the site domain or ends with it
OnSite(url) == EndsWith(Host(Netloc(url)), SITE)

StockMalformed(row) ==
    \/ row = <<>>
    \/ ~row[1].a.has
    \/ \A i \in 1..Len(row) : row[i].class # "searchTicker"
    \/ \A i \in 1..Len(row) : row[i].class # "searchCurrency"

FundMalformed(row) == Len(row) < 2 \/ ~row[1].a.has

\* The fund or etf rows that search reads: those of the first family, in the
\* order fund, etf, whose table the page holds
FamilyRowsRead(p) ==
    IF Present(p, "fund") THEN DataRows(p, "fund") ELSE DataRows(p, "etf")

\* The records of the candidates that resolved to a record, in their order
RECURSIVE RecordsOf(_, _)
RecordsOf(cands, outs) ==
    IF cands = <<>> \/ outs = <<>> THEN <<>>
    ELSE (IF Head(outs) = "record" THEN <<Record(Head(cands).url)>> ELSE <<>>)
         \o RecordsOf(Tail(cands), Tail(outs))

Failures == {"DomainError", "FetchError"}

----------------------------------------------------------------------------
(* C1 *)

\* C1: when both the fund table and the ETF table hold a data row, search
\* returns no ETF candidate, and its fund/ETF candidates are exactly those of
\* the fund table's data rows, one per row.
C1_OnlyFundsWhenBoth ==
    (SearchReturned /\ DataRows(page, "fund") # <<>> /\ DataRows(page, "etf") # <<>>)
    => /\ \A i \in 1..Len(results) : results[i].type # "etf"
       /\ OnePerRow(NonStocks(results), DataRows(page, "fund"))

C1_Witness ==
    /\ op = "search" /\ pc = "returned"
    /\ DataRows(page, "fund") # <<>> /\ DataRows(page, "etf") # <<>>
    /\ Len(results) = 1 /\ results[1].type = "fund"

----------------------------------------------------------------------------
(* C2 *)

\* C2 as stated: with a fund table holding its header row only and an ETF
\* table holding n >= 1 data rows, search returns exactly n ETF candidates,
\* one per ETF data row.
C2_AsStated ==
    (SearchReturned /\ Present(page, "fund") /\ DataRows(page, "fund") = <<>>
       /\ DataRows(page, "etf") # <<>>)
    => /\ OnePerRow(NonStocks(results), DataRows(page, "etf"))
       /\ \A i \in 1..Len(NonStocks(results)) : NonStocks(results)[i].type = "etf"

\* C2 amended: the scan stops after the first family whose table is in the
\* page, data rows or not. With a fund table in the page that holds no data
\* row, search returns no fund and no ETF candidate whatever the ETF table
\* holds; with no fund table in the page and an ETF table of n >= 1 data
\* rows, search returns exactly n candidates of type etf, one per row.
C2_StopsAtFirstPresent ==
    /\ (SearchEnded /\ Present(page, "fund") /\ DataRows(page, "fund") = <<>>
          /\ \A i \in 1..Len(DataRows(page, "stock")) :
                ~StockMalformed(DataRows(page, "stock")[i]))
       => SearchReturned /\ NonStocks(results) = <<>>
    /\ (SearchReturned /\ ~Present(page, "fund") /\ DataRows(page, "etf") # <<>>)
       => /\ OnePerRow(NonStocks(results), DataRows(page, "etf"))
          /\ \A i \in 1..Len(NonStocks(results)) : NonStocks(results)[i].type = "etf"

C2_Witness ==
    /\ op = "search" /\ pc = "returned"
    /\ Present(page, "fund") /\ DataRows(page, "fund") = <<>>
    /\ Len(FirstTable(page, "fund").rows) = 1
    /\ Len(DataRows(page, "etf")) = 2
    /\ results = <<>>

----------------------------------------------------------------------------
(* C3 *)

\* C3: in the list search returns, no Stock candidate follows a fund/ETF
\* candidate; the Stock candidates are those of the stock table's data rows
\* in row order and the fund/ETF candidates those of the rows read from the
\* fund or ETF table in row order, wherever the tables stand in the page.
C3_StocksFirstInRowOrder ==
    SearchReturned
    => /\ \A i, j \in 1..Len(results) :
            (i < j /\ results[j].type = "Stock") => results[i].type = "Stock"
       /\ OnePerRow(Stocks(results), DataRows(page, "stock"))
       /\ OnePerRow(NonStocks(results), FamilyRowsRead(page))

C3_Witness ==
    /\ op = "search" /\ pc = "returned"
    /\ Len(page) = 2 /\ page[1].id = TableId("fund") /\ page[2].id = TableId("stock")
    /\ Len(results) = 3
    /\ results[1].type = "Stock" /\ results[2].type = "Stock"
    /\ results[1].name # results[2].name
    /\ results[3].type = "fund"

----------------------------------------------------------------------------
(* C4 *)

\* C4: when get_data has ended on a list returned by search and every
\* resolution made yielded a record or absence, get_data has returned (not
\* raised), every candidate was resolved, and its output is exactly the
\* records of the candidates that yielded one, in candidate order.
C4_SkipsAbsentKeepsOrder ==
    (GetDataEnded /\ SearchReturned
       /\ \A i \in 1..Len(outcomes) : outcomes[i] \in {"record", "absent"})
    => /\ pc = "returned"
       /\ Len(outcomes) = Len(results)
       /\ output = RecordsOf(results, outcomes)
       /\ Len(output) = Cardinality({i \in 1..Len(outcomes) : outcomes[i] = "record"})

C4_Witness ==
    /\ op = "get_data" /\ pc = "returned"
    /\ outcomes = <<"record", "absent", "record">>
    /\ Len(output) = 2

----------------------------------------------------------------------------
(* C5 *)

\* C5 as stated: a failed resolution never aborts the rest: when get_data has
\* ended on a list returned by search, every candidate was resolved and
\* get_data returned the records of those that resolved to one.
C5_AsStated ==
    (GetDataEnded /\ SearchReturned)
    => /\ pc = "returned"
       /\ Len(outcomes) = Len(results)
       /\ output = RecordsOf(results, outcomes)

\* C5 amended: a failed resolution aborts get_data: when the resolution of
\* candidate i fails (domain error for an off-site url, or a failed fetch of
\* the detail page), the error propagates to the caller of get_data, no
\* candidate after i is resolved and no list is returned.
C5_FailureAborts ==
    \A i \in 1..Len(outcomes) :
        (op = "get_data" /\ outcomes[i] \in Failures)
        => /\ pc = "raised"
           /\ err = [type |-> outcomes[i], at |-> "get_url"]
           /\ i = Len(outcomes)
           /\ idx = i
           /\ \A k \in 1..Len(trace) : trace[k].i <= i

C5_Witness ==
    /\ op = "get_data" /\ pc = "raised"
    /\ Len(results) = 2
    /\ outcomes = <<"FetchError">>

----------------------------------------------------------------------------
(* C6 *)

\* C6: no detail page is ever fetched from a url whose host does not end
\* with the site domain; get_url on such a url ends with a domain error and
\* without a fetch.
C6_NoOffSiteFetch ==
    /\ \A k \in 1..Len(trace) :
         trace[k].ev = "fetch_detail" => OnSite(trace[k].url)
    /\ (op = "get_url" /\ pc # "resolve" /\ ~OnSite(arg))
       => /\ pc = "raised"
          /\ err.type = "DomainError"
          /\ \A k \in 1..Len(trace) : trace[k].ev # "fetch_detail"

C6_Witness ==
    /\ op = "get_url" /\ pc = "raised"
    /\ arg = U_evil
    /\ err.type = "DomainError"
    /\ trace = <<Event("resolve", 0, U_evil)>>

----------------------------------------------------------------------------
(* C7 *)

\* C7: every candidate search returns has an absolute url (scheme and host
\* present), whatever link target its row holds.
C7_UrlsAbsolute ==
    SearchReturned => \A i \in 1..Len(results) : IsAbsolute(results[i].url)

----------------------------------------------------------------------------
(* C8 *)

\* C8: every candidate search returns has a kind among Stock, Fund, ETF: one
\* built from a stock row has kind Stock and carries ticker and currency, one
\* built from a fund row has kind Fund and carries ISIN, one built from an
\* ETF row has kind ETF and carries ISIN.
C8_KindsAndFields ==
    SearchReturned
    => /\ \A i \in 1..Len(results) : results[i].type \in {"Stock", "Fund", "ETF"}
       /\ \A i \in 1..Len(results) :
            IF i <= Len(DataRows(page, "stock"))
            THEN /\ results[i].type = "Stock"
                 /\ DOMAIN results[i] = {"name", "url", "type", "ticker", "currency"}
            ELSE /\ results[i].type = (IF Present(page, "fund") THEN "Fund" ELSE "ETF")
                 /\ DOMAIN results[i] = {"name", "url", "type", "ISIN"}

----------------------------------------------------------------------------
(* C9 *)

\* C9: in a run of get_data the search page is fetched exactly once and
\* before anything else; the resolver is entered at most once per candidate,
\* in candidate order, each time on that candidate's url; a detail page is
\* fetched only right after the resolver was entered for its candidate, so
\* before the resolver is entered for the next one; nothing is fetched twice.
C9_SequentialUnrepeated ==
    op = "get_data"
    => /\ pc # "search" => (trace # <<>> /\ trace[1].ev = "fetch_search")
       /\ \A k \in 2..Len(trace) : trace[k].ev # "fetch_search"
       /\ \A k, l \in 1..Len(trace) :
            (k < l /\ trace[k].ev = trace[l].ev) => trace[k].i < trace[l].i
       /\ \A k \in 1..Len(trace) :
            trace[k].ev = "resolve"
            => /\ trace[k].i \in 1..Len(results)
               /\ trace[k].url = results[trace[k].i].url
               /\ trace[k].i = 1 + Cardinality({l \in 1..(k - 1) : trace[l].ev = "resolve"})
       /\ \A k \in 1..Len(trace) :
            trace[k].ev = "fetch_detail"
            => /\ k > 1
               /\ trace[k - 1] = Event("resolve", trace[k].i, trace[k].url)

C9_Witness ==
    /\ op = "get_data" /\ pc = "returned"
    /\ outcomes = <<"absent", "record">>
    /\ Len(trace) = 5

----------------------------------------------------------------------------
(* C10 *)

\* C10: when a data row that search reads is malformed (a stock row without
\* a first cell, a link, a ticker cell or a currency cell; a fund/ETF row with
\* fewer than two cells or without a link in its first cell), search ends
\* with a lookup error and returns no list.
C10_MalformedRowFails ==
    (SearchEnded
       /\ \/ \E i \in 1..Len(DataRows(page, "stock")) :
                StockMalformed(DataRows(page, "stock")[i])
          \/ \E i \in 1..Len(FamilyRowsRead(page)) :
                FundMalformed(FamilyRowsRead(page)[i]))
    => /\ pc = "raised"
       /\ err.at = "search"
       /\ err.type \in {"AttributeError", "IndexError"}
       /\ results = <<>>

C10_Witness ==
    /\ op = "search" /\ pc = "raised"
    /\ err = [type |-> "IndexError", at |-> "search"]
    /\ Len(DataRows(page, "fund")) = 2
    /\ ~FundMalformed(DataRows(page, "fund")[1])
    /\ FundMalformed(DataRows(page, "fund")[2])

====
